---- MODULE Spec2Model ----
(***************************************************************************)
(* Model of the large-address-aware patcher of MSU-Launcher               *)
(* (src/src/patcher_laa.rs, src/src/pe.rs) and of the commands of          *)
(* src/src/main.rs that drive it.  Files are sequences of bytes; the       *)
(* header structures are decoded and encoded field by field, little        *)
(* endian, as the packed structs of pe.rs lay them out.                    *)
(***************************************************************************)
EXTENDS Integers, Sequences, FiniteSets, TLC

VARIABLES
    target,         \* content of the executable at exe_path
    readonly,       \* its permissions().readonly()
    privileged,     \* the process may write files whatever their permission bits
    disk_full,      \* std::fs::copy to the backup path cannot complete
    backups,        \* content of <exe_path>.<extension>, per backup extension
    pc,             \* position inside patch_exe: "idle" between invocations
    skip_steam_drm, \* argument of the running patch_exe
    version,        \* what detect_version returned to the running patch_exe
    result,         \* what the last patch_exe (or function applied) returned
    query,          \* what the last read-only command (detect, check) returned
    pre,            \* target when the last patch_exe (or function) was entered
    pre_backups,    \* backups at that moment
    wrote,          \* write_all on the target ran in the last patch_exe
    backed_up,      \* make_backup returned Ok in the last patch_exe
    streak,         \* invocations in a row with the same argument, environment unchanged
    prev_skip       \* argument of the last patch_exe

vars == <<target, readonly, privileged, disk_full, backups, pc, skip_steam_drm,
          version, result, query, pre, pre_backups, wrote, backed_up, streak,
          prev_skip>>

\* sizes of the images the model runs on: bytes of DOS stub between the DOS
\* header and the PE signature, and bytes after the ImageFileHeader
GapLen == 3
TailLen == 2
\* invocations of patch_exe in a row that are counted
MaxStreak == 2

----------------------------------------------------------------------------
(* pe.rs: layout constants                                                 *)

\* size_of::<ImageDosHeader>(): 30 u16 fields and one i32, packed
SizeOfImageDosHeader == 64
\* size_of::<ImageFileHeader>(): 4 u16 and 3 u32 fields, packed
SizeOfImageFileHeader == 20
\* size_of::<[u8; 4]>()
SizeOfMagic == 4

IMAGE_DOS_SIGNATURE == 23117
IMAGE_FILE_LARGE_ADDRESS_AWARE == 32
\* a u32 is kept as its two 16-bit halves <<low, high>>: 0x00004550
IMAGE_NT_SIGNATURE == <<17744, 0>>

----------------------------------------------------------------------------
(* Fixed-width little-endian integers                                      *)

u16_from_le_bytes(b, i) == b[i] + 256 * b[i + 1]

u32_from_le_bytes(b, i) == <<u16_from_le_bytes(b, i), u16_from_le_bytes(b, i + 2)>>

u16_to_le_bytes(x) == <<x % 256, x \div 256>>

u32_to_le_bytes(x) == u16_to_le_bytes(x[1]) \o u16_to_le_bytes(x[2])

\* mutant: adds the mask instead of or-ing it
BitOr_Add(x, m) == x + m

\* x | m for a single-bit mask m
BitOr(x, m) == IF (x \div m) % 2 = 1 THEN x ELSE x + m

\* x & m != 0 for a single-bit mask m
BitTest(x, m) == (x \div m) % 2 = 1

\* An offset larger than the length of every file: where a negative i32,
\* sign-extended by `as u64`, lands.
OffsetPastEveryFile == 32767 * 65536 + 65535

\* `dos_header.e_lfanew as u64`, e_lfanew an i32 kept as <<low, high>>
i32_as_u64(x) == IF x[2] >= 32768 THEN OffsetPastEveryFile ELSE x[2] * 65536 + x[1]

----------------------------------------------------------------------------
(* pe.rs: the two packed records, read as a byte image                     *)

\* ptr::read_unaligned(.. as *const ImageDosHeader): e_magic is the first
\* field, e_lfanew the last one (bytes 60..63); the 28 u16 between them are
\* not used by the patcher.
ImageDosHeader(b) ==
    [e_magic |-> u16_from_le_bytes(b, 1), e_lfanew |-> u32_from_le_bytes(b, 61)]

\* ptr::read_unaligned(.. as *const ImageFileHeader)
ImageFileHeader(b) ==
    [machine                 |-> u16_from_le_bytes(b, 1),
     number_of_sections      |-> u16_from_le_bytes(b, 3),
     time_date_stamp         |-> u32_from_le_bytes(b, 5),
     pointer_to_symbol_table |-> u32_from_le_bytes(b, 9),
     number_of_symbols       |-> u32_from_le_bytes(b, 13),
     size_of_optional_header |-> u16_from_le_bytes(b, 17),
     characteristics         |-> u16_from_le_bytes(b, 19)]

\* slice::from_raw_parts(header as *const u8, size_of::<ImageFileHeader>())
header_bytes(h) ==
    u16_to_le_bytes(h.machine) \o u16_to_le_bytes(h.number_of_sections)
    \o u32_to_le_bytes(h.time_date_stamp) \o u32_to_le_bytes(h.pointer_to_symbol_table)
    \o u32_to_le_bytes(h.number_of_symbols) \o u16_to_le_bytes(h.size_of_optional_header)
    \o u16_to_le_bytes(h.characteristics)

NoHeader == ImageFileHeader([i \in 1..SizeOfImageFileHeader |-> 0])

----------------------------------------------------------------------------
(* std::io on a file f (a sequence of bytes) with a cursor pos             *)

Ok == "ok"

\* mutant: a short read is taken as a full one, the missing bytes zero
read_exact_Short(f, pos, n) ==
    IF pos > Len(f) THEN [err |-> "UnexpectedEof", bytes |-> <<>>, pos |-> pos]
    ELSE [err |-> Ok,
          bytes |-> [i \in 1..n |-> IF pos + i <= Len(f) THEN f[pos + i] ELSE 0],
          pos |-> pos + n]

\* Read::read_exact: n bytes from the cursor, or UnexpectedEof
read_exact(f, pos, n) ==
    IF pos <= Len(f) /\ n <= Len(f) - pos
    THEN [err |-> Ok, bytes |-> SubSeq(f, pos + 1, pos + n), pos |-> pos + n]
    ELSE [err |-> "UnexpectedEof", bytes |-> <<>>, pos |-> pos]

\* Write::write_all: overwrite at the cursor, growing the file when the
\* bytes reach past its end
write_all(f, pos, b) ==
    LET end == IF pos + Len(b) > Len(f) THEN pos + Len(b) ELSE Len(f)
    IN [i \in 1..end |-> IF i > pos /\ i <= pos + Len(b) THEN b[i - pos]
                         ELSE IF i <= Len(f) THEN f[i] ELSE 0]

\* File::options().read(true).write(true).open(path): the operating system
\* refuses a file without write permission unless the process may override
\* the permission bits
open_read_write(ro, priv) == IF ro /\ ~priv THEN "PermissionDenied" ELSE Ok

----------------------------------------------------------------------------
(* patcher_laa.rs: Structure Locator                                       *)

\* mutant: never seeks back over the signature
read_and_check_pe_magic_number_NoSeekBack(f, pos, seek_back) ==
    LET r == read_exact(f, pos, SizeOfMagic) IN
    IF r.err # Ok THEN [err |-> r.err, pos |-> pos]
    ELSE IF u32_from_le_bytes(r.bytes, 1) # IMAGE_NT_SIGNATURE
         THEN [err |-> "InvalidPEMagic", pos |-> r.pos]
    ELSE [err |-> Ok, pos |-> r.pos]

read_and_check_pe_magic_number(f, pos, seek_back) ==
    LET r == read_exact(f, pos, SizeOfMagic) IN
    IF r.err # Ok THEN [err |-> r.err, pos |-> pos]
    ELSE IF u32_from_le_bytes(r.bytes, 1) # IMAGE_NT_SIGNATURE
         THEN [err |-> "InvalidPEMagic", pos |-> r.pos]
    ELSE IF seek_back THEN [err |-> Ok, pos |-> r.pos - SizeOfMagic]
    ELSE [err |-> Ok, pos |-> r.pos]

seek_to_pe_header(f) ==
    LET r == read_exact(f, 0, SizeOfImageDosHeader) IN
    IF r.err # Ok THEN [err |-> r.err, pos |-> 0]
    ELSE LET dos_header == ImageDosHeader(r.bytes) IN
         IF dos_header.e_magic # IMAGE_DOS_SIGNATURE
         THEN [err |-> "InvalidDOSMagic", pos |-> r.pos]
         ELSE read_and_check_pe_magic_number(f, i32_as_u64(dos_header.e_lfanew), TRUE)

read_image_file_header(f, pos) ==
    LET m == read_and_check_pe_magic_number(f, pos, FALSE) IN
    IF m.err # Ok THEN [err |-> m.err, pos |-> m.pos, header |-> NoHeader]
    ELSE LET r == read_exact(f, m.pos, SizeOfImageFileHeader) IN
         IF r.err # Ok THEN [err |-> r.err, pos |-> m.pos, header |-> NoHeader]
         ELSE [err |-> Ok, pos |-> r.pos, header |-> ImageFileHeader(r.bytes)]

\* mutant: writes the record where the cursor is, over the signature
write_image_file_header_NoMagicRead(f, pos, header, ro) ==
    IF ro THEN [err |-> "ReadOnly", file |-> f, pos |-> pos]
    ELSE [err |-> Ok, file |-> write_all(f, pos, header_bytes(header)),
          pos |-> pos + SizeOfImageFileHeader]

\* mutant: looks at the permission after the write
write_image_file_header_CheckAfter(f, pos, header, ro) ==
    LET m == read_and_check_pe_magic_number(f, pos, FALSE) IN
    IF m.err # Ok THEN [err |-> m.err, file |-> f, pos |-> m.pos]
    ELSE [err |-> IF ro THEN "ReadOnly" ELSE Ok,
          file |-> write_all(f, m.pos, header_bytes(header)),
          pos |-> m.pos + SizeOfImageFileHeader]

write_image_file_header(f, pos, header, ro) ==
    IF ro THEN [err |-> "ReadOnly", file |-> f, pos |-> pos]
    ELSE LET m == read_and_check_pe_magic_number(f, pos, FALSE) IN
         IF m.err # Ok THEN [err |-> m.err, file |-> f, pos |-> m.pos]
         ELSE [err |-> Ok, file |-> write_all(f, m.pos, header_bytes(header)),
               pos |-> m.pos + SizeOfImageFileHeader]

----------------------------------------------------------------------------
(* patcher_laa.rs: Flag Patcher                                            *)

make_laa(f, ro, priv) ==
    IF open_read_write(ro, priv) # Ok
    THEN [err |-> open_read_write(ro, priv), file |-> f, wrote |-> FALSE]
    ELSE LET s1 == seek_to_pe_header(f) IN
    IF s1.err # Ok THEN [err |-> s1.err, file |-> f, wrote |-> FALSE]
    ELSE LET r == read_image_file_header(f, s1.pos) IN
    IF r.err # Ok THEN [err |-> r.err, file |-> f, wrote |-> FALSE]
    ELSE LET file_header == [r.header EXCEPT !.characteristics =
                                 BitOr(@, IMAGE_FILE_LARGE_ADDRESS_AWARE)]
             s2 == seek_to_pe_header(f)
         IN
    IF s2.err # Ok THEN [err |-> s2.err, file |-> f, wrote |-> FALSE]
    ELSE LET w == write_image_file_header(f, s2.pos, file_header, ro) IN
         [err |-> w.err, file |-> w.file, wrote |-> w.err = Ok]

is_laa(f) ==
    LET s == seek_to_pe_header(f) IN
    IF s.err # Ok THEN [err |-> s.err, value |-> FALSE]
    ELSE LET r == read_image_file_header(f, s.pos) IN
         IF r.err # Ok THEN [err |-> r.err, value |-> FALSE]
         ELSE [err |-> Ok,
               value |-> BitTest(r.header.characteristics, IMAGE_FILE_LARGE_ADDRESS_AWARE)]

----------------------------------------------------------------------------
(* patcher_laa.rs: Version Identifier                                      *)

\* Sha256 over the whole content, as a position-weighted digest of the bytes
\* f[lo..hi]: it depends on every byte, on its place and on the length.
RECURSIVE digest_of(_, _, _)
digest_of(f, lo, hi) ==
    IF lo > hi THEN 0
    ELSE IF lo = hi THEN ((f[lo] + 1) * (1 + ((lo * 7919) % 1000003))) % 1000003
    ELSE LET mid == (lo + hi) \div 2 IN
         (digest_of(f, lo, mid) + digest_of(f, mid + 1, hi)) % 1000003

sha_hash_path(f) == (digest_of(f, 1, Len(f)) + 31 * Len(f)) % 1000003

Zeros(n) == [i \in 1..n |-> 0]

\* An executable image: a DOS header whose e_lfanew is 64 + gap, gap bytes
\* of DOS stub, the PE signature, an ImageFileHeader (i386, 5 sections) and
\* tail bytes of what follows it.
Image(gap, stamp, characteristics, tail) ==
    u16_to_le_bytes(IMAGE_DOS_SIGNATURE) \o Zeros(SizeOfImageDosHeader - 6)
    \o u32_to_le_bytes(<<SizeOfImageDosHeader + gap, 0>>)
    \o [i \in 1..gap |-> 14 + i]
    \o u32_to_le_bytes(IMAGE_NT_SIGNATURE)
    \o header_bytes([machine |-> 332, number_of_sections |-> 5,
                     time_date_stamp |-> <<stamp, 24000>>,
                     pointer_to_symbol_table |-> <<0, 0>>,
                     number_of_symbols |-> <<0, 0>>,
                     size_of_optional_header |-> 224,
                     characteristics |-> characteristics])
    \o [i \in 1..tail |-> 200 + i]

\* the builds the bundled digest lists know; SteamlessLaaExe is a build that
\* ships with the capability bit set, and is SteamlessExe but for that bit
SteamExe        == Image(0, 101, 258, TailLen)
SteamlessExe    == Image(0, 102, 258, TailLen)
SteamlessLaaExe == Image(0, 102, 290, TailLen)
GogExe          == Image(0, 104, 258, TailLen)
GogGapExe       == Image(GapLen, 105, 258, TailLen)

\* hashes/steam.txt, hashes/steamless.txt, hashes/gog.txt, decoded
STEAM_HASHES     == {sha_hash_path(SteamExe)}
STEAMLESS_HASHES == {sha_hash_path(SteamlessExe), sha_hash_path(SteamlessLaaExe)}
GOG_HASHES       == {sha_hash_path(GogExe), sha_hash_path(GogGapExe)}

\* mutant: a digest in no set is Unknown, the capability bit is not looked at
detect_version_NoFallback(f) ==
    LET hash == sha_hash_path(f) IN
    IF hash \in STEAM_HASHES THEN [err |-> Ok, version |-> "Steam"]
    ELSE IF hash \in STEAMLESS_HASHES THEN [err |-> Ok, version |-> "Steamless"]
    ELSE IF hash \in GOG_HASHES THEN [err |-> Ok, version |-> "GOG"]
    ELSE [err |-> Ok, version |-> "Unknown"]

detect_version(f) ==
    LET hash == sha_hash_path(f) IN
    IF hash \in STEAM_HASHES THEN [err |-> Ok, version |-> "Steam"]
    ELSE IF hash \in STEAMLESS_HASHES THEN [err |-> Ok, version |-> "Steamless"]
    ELSE IF hash \in GOG_HASHES THEN [err |-> Ok, version |-> "GOG"]
    ELSE LET l == is_laa(f) IN
         IF l.err # Ok THEN [err |-> l.err, version |-> "none"]
         ELSE IF l.value THEN [err |-> Ok, version |-> "Already Patched"]
         ELSE [err |-> Ok, version |-> "Unknown"]

----------------------------------------------------------------------------
(* Files the program is run on                                             *)

\* builds no digest list knows: without and with the capability bit
UnknownExe == Image(0, 106, 258, TailLen)
PatchedExe == Image(GapLen, 107, 290, TailLen)

\* files that are not images
EmptyFile         == <<>>
MagicOnlyFile     == u16_to_le_bytes(IMAGE_DOS_SIGNATURE)
ShortFile         == SubSeq(GogExe, 1, SizeOfImageDosHeader - 1)
BadDosExe         == [GogExe EXCEPT ![1] = 90, ![2] = 77]
BadPeExe          == [UnknownExe EXCEPT ![SizeOfImageDosHeader + 3] = 1]
NegativeOffsetExe == [UnknownExe EXCEPT ![SizeOfImageDosHeader] = 255]
FarOffsetExe      == [UnknownExe EXCEPT ![SizeOfImageDosHeader - 2] = 1]
SignatureAtEofExe == SubSeq(UnknownExe, 1, SizeOfImageDosHeader + SizeOfMagic)
TruncatedExe      == SubSeq(UnknownExe, 1,
                            SizeOfImageDosHeader + SizeOfMagic + SizeOfImageFileHeader - 1)

\* an image whose e_lfanew (39) points into the DOS header, so that the
\* characteristics field lies on bytes 61..62 of the file, inside e_lfanew
OverlapExe ==
    write_all(u16_to_le_bytes(IMAGE_DOS_SIGNATURE) \o Zeros(SizeOfImageDosHeader - 2), 39,
              u32_to_le_bytes(IMAGE_NT_SIGNATURE)
              \o header_bytes([machine |-> 332, number_of_sections |-> 5,
                               time_date_stamp |-> <<108, 24000>>,
                               pointer_to_symbol_table |-> <<0, 0>>,
                               number_of_symbols |-> <<0, 0>>,
                               size_of_optional_header |-> 224 + 256 * 39,
                               characteristics |-> 0]))

InputFiles ==
    {SteamExe, SteamlessExe, SteamlessLaaExe, GogExe, GogGapExe, UnknownExe, PatchedExe,
     EmptyFile, MagicOnlyFile, ShortFile, BadDosExe, BadPeExe, NegativeOffsetExe,
     FarOffsetExe, SignatureAtEofExe, TruncatedExe, OverlapExe}

----------------------------------------------------------------------------
(* patcher_laa.rs: Patch Orchestration, and the commands of main.rs        *)

NoFile == <<"absent">>
Extensions == {"steam_backup", "steamless_backup", "gog_backup"}

\* mutant: the GOG arm passes the Steamless extension
backup_extension_Swapped(v) ==
    CASE v = "Steam" -> "steam_backup"
      [] v = "Steamless" -> "steamless_backup"
      [] v = "GOG" -> "steamless_backup"

\* the backup extension patch_exe passes to make_backup for a version
backup_extension(v) ==
    CASE v = "Steam" -> "steam_backup"
      [] v = "Steamless" -> "steamless_backup"
      [] v = "GOG" -> "gog_backup"

\* the outcome string patch_exe returns after make_laa for a version
outcome(v) ==
    CASE v = "Steam" -> "Patched Steam Version (DRM intact - may not work correctly)"
      [] v = "Steamless" -> "Patched Steamless Version"
      [] v = "GOG" -> "Patched GOG Version"

\* mutant: the Steam arm patches whatever skip_steam_drm says
patch_exe_match_NoSteamGate(d, skip) ==
    IF d.err # Ok THEN [returns |-> TRUE, err |-> d.err, out |-> ""]
    ELSE IF d.version = "Already Patched"
    THEN [returns |-> TRUE, err |-> Ok, out |-> "Already patched"]
    ELSE IF d.version = "Unknown"
    THEN [returns |-> TRUE, err |-> "UnknownVersion", out |-> ""]
    ELSE [returns |-> FALSE, err |-> Ok, out |-> ""]

\* the match of patch_exe on what detect_version returned: the error or
\* outcome of the arms that return at once, "" for the arms that patch
patch_exe_match(d, skip) ==
    IF d.err # Ok THEN [returns |-> TRUE, err |-> d.err, out |-> ""]
    ELSE IF d.version = "Steam" /\ ~skip
    THEN [returns |-> TRUE, err |-> "SteamBlocked", out |-> ""]
    ELSE IF d.version = "Already Patched"
    THEN [returns |-> TRUE, err |-> Ok, out |-> "Already patched"]
    ELSE IF d.version = "Unknown"
    THEN [returns |-> TRUE, err |-> "UnknownVersion", out |-> ""]
    ELSE [returns |-> FALSE, err |-> Ok, out |-> ""]

NoResult == [op |-> "none", err |-> Ok, out |-> "", pos |-> 0]
Returned(op, err, out) == [op |-> op, err |-> err, out |-> out, pos |-> 0]
\* what a read-only command printed, and the content it was run on
NoQuery == [op |-> "none", err |-> Ok, out |-> "", on |-> <<>>]
Asked(op, err, out, f) == [op |-> op, err |-> err, out |-> out, on |-> f]

Init ==
    /\ target \in InputFiles
    /\ readonly \in BOOLEAN
    /\ privileged \in BOOLEAN
    /\ disk_full \in BOOLEAN
    /\ backups = [e \in Extensions |-> NoFile]
    /\ pc = "idle"
    /\ skip_steam_drm = FALSE
    /\ version = "none"
    /\ result = NoResult
    /\ query = NoQuery
    /\ pre = target
    /\ pre_backups = backups
    /\ wrote = FALSE
    /\ backed_up = FALSE
    /\ streak = 0
    /\ prev_skip = FALSE

\* patch_exe up to the match on the version: the arms that return at once
\* return here, the three patching arms go on to make_backup
PatchExe(skip) ==
    /\ pc = "idle"
    /\ skip_steam_drm' = skip
    /\ pre' = target
    /\ pre_backups' = backups
    /\ wrote' = FALSE
    /\ backed_up' = FALSE
    /\ streak' = IF streak >= 1 /\ prev_skip = skip
                  THEN (IF streak < MaxStreak THEN streak + 1 ELSE MaxStreak)
                  ELSE 1
    /\ prev_skip' = skip
    /\ LET d == detect_version(target)
           m == patch_exe_match(d, skip)
       IN /\ version' = d.version
          /\ IF m.returns
             THEN pc' = "idle" /\ result' = Returned("patch_exe", m.err, m.out)
             ELSE pc' = "make_backup" /\ result' = NoResult
    /\ UNCHANGED <<target, readonly, privileged, disk_full, backups, query>>

\* mutant: the result of make_backup is dropped, make_laa runs all the same
MakeBackup_Unchecked ==
    /\ pc = "make_backup"
    /\ LET ext == backup_extension(version) IN
       IF disk_full
       THEN /\ backups' \in {backups, [backups EXCEPT ![ext] = <<>>]}
            /\ backed_up' = FALSE
       ELSE /\ backups' = [backups EXCEPT ![ext] = target]
            /\ backed_up' = TRUE
    /\ pc' = "make_laa"
    /\ UNCHANGED <<target, readonly, privileged, disk_full, skip_steam_drm, version,
                   result, query, pre, pre_backups, wrote, streak, prev_skip>>

\* make_backup(exe_path, <extension>)?: std::fs::copy to the backup path.
\* A copy that fails may leave no file, an older backup, or a truncated one.
MakeBackup ==
    /\ pc = "make_backup"
    /\ LET ext == backup_extension(version) IN
       IF disk_full
       THEN /\ backups' \in {backups, [backups EXCEPT ![ext] = <<>>]}
            /\ backed_up' = FALSE
            /\ pc' = "idle"
            /\ result' = Returned("patch_exe", "BackupFailed", "")
       ELSE /\ backups' = [backups EXCEPT ![ext] = target]
            /\ backed_up' = TRUE
            /\ pc' = "make_laa"
            /\ result' = result
    /\ UNCHANGED <<target, readonly, privileged, disk_full, skip_steam_drm, version,
                   query, pre, pre_backups, wrote, streak, prev_skip>>

\* make_laa(exe_path).context(..)? and the Ok(..) that follows it
MakeLaa ==
    /\ pc = "make_laa"
    /\ LET m == make_laa(target, readonly, privileged) IN
       /\ target' = m.file
       /\ wrote' = m.wrote
       /\ result' = IF m.err = Ok THEN Returned("patch_exe", Ok, outcome(version))
                    ELSE Returned("patch_exe", m.err, "")
    /\ pc' = "idle"
    /\ UNCHANGED <<readonly, privileged, disk_full, backups, skip_steam_drm, version,
                   query, pre, pre_backups, backed_up, streak, prev_skip>>

\* cmd_detect: detect_version, printed
Detect ==
    /\ pc = "idle"
    /\ LET d == detect_version(target) IN
       query' = Asked("detect_version", d.err, d.version, target)
    /\ UNCHANGED <<target, readonly, privileged, disk_full, backups, pc, skip_steam_drm,
                   version, result, pre, pre_backups, wrote, backed_up, streak, prev_skip>>

\* cmd_check: is_laa, printed
Check ==
    /\ pc = "idle"
    /\ LET l == is_laa(target) IN
       query' = Asked("is_laa", l.err, IF l.value THEN "true" ELSE "false", target)
    /\ UNCHANGED <<target, readonly, privileged, disk_full, backups, pc, skip_steam_drm,
                   version, result, pre, pre_backups, wrote, backed_up, streak, prev_skip>>

\* between invocations the operator changes the permission of the executable
Chmod ==
    /\ pc = "idle"
    /\ readonly' = ~readonly
    /\ streak' = 0
    /\ UNCHANGED <<target, privileged, disk_full, backups, pc, skip_steam_drm, version,
                   result, query, pre, pre_backups, wrote, backed_up, prev_skip>>

\* between invocations the volume fills up or is freed
DiskChange ==
    /\ pc = "idle"
    /\ disk_full' = ~disk_full
    /\ streak' = 0
    /\ UNCHANGED <<target, readonly, privileged, backups, pc, skip_steam_drm, version,
                   result, query, pre, pre_backups, wrote, backed_up, prev_skip>>

Next ==
    \/ \E skip \in BOOLEAN : PatchExe(skip)
    \/ MakeBackup
    \/ MakeLaa
    \/ Detect
    \/ Check
    \/ Chmod
    \/ DiskChange

Spec == Init /\ [][Next]_vars

----------------------------------------------------------------------------
(* The functions of patcher_laa.rs applied to a file on their own          *)

InitUnit ==
    /\ target \in InputFiles
    /\ readonly \in BOOLEAN
    /\ privileged \in BOOLEAN
    /\ disk_full = FALSE
    /\ backups = [e \in Extensions |-> NoFile]
    /\ pc = "unit"
    /\ skip_steam_drm = FALSE
    /\ version = "none"
    /\ result = NoResult
    /\ query = NoQuery
    /\ pre = target
    /\ pre_backups = backups
    /\ wrote = FALSE
    /\ backed_up = FALSE
    /\ streak = 0
    /\ prev_skip = FALSE

\* let mut file = File::open(path)?; seek_to_pe_header(&mut file)
ApplySeek ==
    /\ LET s == seek_to_pe_header(target) IN
       result' = [op |-> "seek_to_pe_header", err |-> s.err, out |-> "", pos |-> s.pos]
    /\ pre' = target
    /\ wrote' = FALSE
    /\ UNCHANGED <<target, readonly, privileged, disk_full, backups, pc, skip_steam_drm,
                   version, query, pre_backups, backed_up, streak, prev_skip>>

ApplyIsLaa ==
    /\ LET l == is_laa(target) IN
       result' = Returned("is_laa", l.err, IF l.value THEN "true" ELSE "false")
    /\ pre' = target
    /\ wrote' = FALSE
    /\ UNCHANGED <<target, readonly, privileged, disk_full, backups, pc, skip_steam_drm,
                   version, query, pre_backups, backed_up, streak, prev_skip>>

ApplyMakeLaa ==
    /\ LET m == make_laa(target, readonly, privileged) IN
       /\ target' = m.file
       /\ wrote' = m.wrote
       /\ result' = Returned("make_laa", m.err, "")
    /\ pre' = target
    /\ UNCHANGED <<readonly, privileged, disk_full, backups, pc, skip_steam_drm,
                   version, query, pre_backups, backed_up, streak, prev_skip>>

NextUnit == ApplySeek \/ ApplyIsLaa \/ ApplyMakeLaa

SpecUnit == InitUnit /\ [][NextUnit]_vars

----------------------------------------------------------------------------
(* What the container format says of a file, read off its bytes            *)

HasDosMagic(f) == Len(f) >= 64 /\ f[1] = 77 /\ f[2] = 90

\* e_lfanew of a file with a DOS header and a non-negative offset
Lfanew(f) == f[61] + 256 * f[62] + 65536 * f[63] + 16777216 * f[64]

\* DOS magic at offset 0 and the bytes 0x50,0x45,0x00,0x00 at offset e_lfanew
ValidContainer(f) ==
    /\ HasDosMagic(f)
    /\ f[64] < 128
    /\ Lfanew(f) + 4 <= Len(f)
    /\ SubSeq(f, Lfanew(f) + 1, Lfanew(f) + 4) = <<80, 69, 0, 0>>

\* a valid container that holds the whole 20-byte header record
WholeHeader(f) == ValidContainer(f) /\ Lfanew(f) + 24 <= Len(f)

\* index of the low byte of the characteristics field (record offset 18)
CharacteristicsAt(f) == Lfanew(f) + 4 + 18 + 1

HasLaaBit(f) == (f[CharacteristicsAt(f)] \div 32) % 2 = 1

InSteamSet(f)     == sha_hash_path(f) \in STEAM_HASHES
InSteamlessSet(f) == sha_hash_path(f) \in STEAMLESS_HASHES
InGogSet(f)       == sha_hash_path(f) \in GOG_HASHES
InNoSet(f)        == ~InSteamSet(f) /\ ~InSteamlessSet(f) /\ ~InGogSet(f)

PatchedOutcomes ==
    {"Patched Steam Version (DRM intact - may not work correctly)",
     "Patched Steamless Version", "Patched GOG Version"}

\* patch_exe has returned, and nothing has changed the environment since
JustReturned == pc = "idle" /\ result.op = "patch_exe" /\ streak >= 1

----------------------------------------------------------------------------
(* Claims                                                                  *)

\* C1: in patch_exe the header write runs only after make_backup has returned
\* Ok and the backup holds the content the target had on entry; when the
\* backup fails patch_exe returns the error and the target is not written.
C1_BackupGate ==
    /\ wrote => backed_up /\ backups[backup_extension(version)] = pre
    /\ target # pre => backed_up
    /\ pc = "make_laa" => backed_up /\ backups[backup_extension(version)] = target
    /\ (result.op = "patch_exe" /\ result.err = "BackupFailed")
          => ~wrote /\ ~backed_up /\ target = pre /\ pc = "idle"

C1_Witness == wrote /\ backed_up /\ target # pre /\ result.err = Ok

\* C2: a file whose digest is in the Steam set is classified Steam; patch_exe
\* without the override returns the Steam refusal and touches nothing; with
\* the override it makes the steam_backup copy and applies the header patch
\* (it fails only where the backup or a read-only target stops it).
C2_SteamGate ==
    /\ (query.op = "detect_version" /\ InSteamSet(query.on))
          => query.err = Ok /\ query.out = "Steam"
    /\ (JustReturned /\ InSteamSet(pre) /\ ~skip_steam_drm)
          => /\ result.err = "SteamBlocked"
             /\ target = pre /\ backups = pre_backups /\ ~backed_up /\ ~wrote
    /\ (JustReturned /\ InSteamSet(pre) /\ skip_steam_drm)
          => /\ result.err \in {Ok, "BackupFailed", "PermissionDenied", "ReadOnly"}
             /\ (~disk_full /\ ~readonly) => result.err = Ok
             /\ ~disk_full => backed_up /\ backups["steam_backup"] = pre
             /\ result.err = Ok
                   => /\ result.out = "Patched Steam Version (DRM intact - may not work correctly)"
                      /\ backups["steam_backup"] = pre
                      /\ wrote /\ HasLaaBit(target)

C2_Witness ==
    /\ JustReturned /\ InSteamSet(pre) /\ skip_steam_drm /\ result.err = Ok
    /\ backups["steam_backup"] = pre /\ HasLaaBit(target) /\ ~HasLaaBit(pre)

\* C3: a second patch_exe right after a first one, with the same argument and
\* the environment unchanged, leaves the target as the first one left it.
C3_Idempotent == (pc = "idle" /\ streak >= 2) => target = pre

\* the second invocation wrote the header again, over a set capability bit
C3_Witness == pc = "idle" /\ streak >= 2 /\ wrote /\ result.err = Ok /\ target = pre

\* C4: detect_version answers Steam, else Steamless, else GOG by the digest,
\* whatever the header says; when the digest is in no set and the header can
\* be read, it answers Already Patched if bit 0x0020 is set and Unknown if not.
C4_Classification ==
    query.op = "detect_version" =>
        LET f == query.on IN
        /\ InSteamSet(f) => query.err = Ok /\ query.out = "Steam"
        /\ (~InSteamSet(f) /\ InSteamlessSet(f)) => query.err = Ok /\ query.out = "Steamless"
        /\ (~InSteamSet(f) /\ ~InSteamlessSet(f) /\ InGogSet(f))
              => query.err = Ok /\ query.out = "GOG"
        /\ (InNoSet(f) /\ WholeHeader(f))
              => /\ query.err = Ok
                 /\ query.out = IF HasLaaBit(f) THEN "Already Patched" ELSE "Unknown"

C4_Witness ==
    /\ query.op = "detect_version" /\ InNoSet(query.on) /\ WholeHeader(query.on)
    /\ HasLaaBit(query.on) /\ query.out = "Already Patched"

\* C5 as claimed: on a valid container seek_to_pe_header succeeds and leaves
\* the cursor on the first byte after the signature, at e_lfanew + 4.
C5_CursorAfterSignature ==
    (result.op = "seek_to_pe_header" /\ ValidContainer(pre))
        => result.err = Ok /\ result.pos = Lfanew(pre) + 4

\* C5: on a valid container seek_to_pe_header succeeds and leaves the cursor
\* on the first byte of the signature, at e_lfanew (it seeks back over the 4
\* bytes it checked; the reader and the writer check them again).
C5_CursorAtSignature ==
    (result.op = "seek_to_pe_header" /\ ValidContainer(pre))
        => result.err = Ok /\ result.pos = Lfanew(pre)

C5_Witness ==
    /\ result.op = "seek_to_pe_header" /\ ValidContainer(pre)
    /\ result.err = Ok /\ result.pos = Lfanew(pre) /\ result.pos > 64

\* C6: make_laa on a target without write permission (an image with its whole
\* header) fails with the "File is readonly" error and writes nothing.
C6_ReadOnlyTarget ==
    (result.op = "make_laa" /\ readonly /\ WholeHeader(pre))
        => result.err = "ReadOnly" /\ ~wrote /\ target = pre

\* C7: a make_laa that succeeds leaves the length of the file as it was and
\* changes no byte but the low byte of characteristics, at e_lfanew + 22, where
\* bit 0x0020 is now set and no other bit differs.
C7_OnlyTheBit ==
    (result.op = "make_laa" /\ result.err = Ok) =>
        /\ WholeHeader(pre)
        /\ Len(target) = Len(pre)
        /\ \A i \in 1..Len(pre) : i # CharacteristicsAt(pre) => target[i] = pre[i]
        /\ target[CharacteristicsAt(pre)] =
              IF HasLaaBit(pre) THEN pre[CharacteristicsAt(pre)]
              ELSE pre[CharacteristicsAt(pre)] + 32
        /\ HasLaaBit(pre) => target = pre

C7_Witness ==
    /\ result.op = "make_laa" /\ result.err = Ok /\ wrote
    /\ ~HasLaaBit(pre) /\ target # pre

\* C8: a patch_exe that returns a "Patched ..." outcome has written one backup,
\* under the extension of the classification, holding the content the target
\* had on entry; the other backups are as they were, the outcome names the
\* variant, the target has bit 0x0020 set and is_laa answers true.
C8_OneBackup ==
    (pc = "idle" /\ result.op = "patch_exe" /\ result.err = Ok
       /\ result.out # "Already patched") =>
        LET ext == IF InSteamSet(pre) THEN "steam_backup"
                   ELSE IF InSteamlessSet(pre) THEN "steamless_backup"
                   ELSE "gog_backup"
            named == IF InSteamSet(pre)
                     THEN "Patched Steam Version (DRM intact - may not work correctly)"
                     ELSE IF InSteamlessSet(pre) THEN "Patched Steamless Version"
                     ELSE "Patched GOG Version"
        IN /\ ~InNoSet(pre)
           /\ result.out = named
           /\ backups[ext] = pre
           /\ \A e \in Extensions \ {ext} : backups[e] = pre_backups[e]
           /\ HasLaaBit(target)
           /\ is_laa(target) = [err |-> Ok, value |-> TRUE]

C8_Witness ==
    /\ pc = "idle" /\ result.out = "Patched GOG Version" /\ InGogSet(pre)
    /\ backups["gog_backup"] = pre /\ target # pre /\ HasLaaBit(target)

\* C9: on a file shorter than 64 bytes seek_to_pe_header fails with
\* UnexpectedEof on the DOS header, the cursor not past the end of the file;
\* is_laa and make_laa fail on it too, and make_laa writes nothing.
C9_ShortFile ==
    (Len(pre) < 64 /\ result.op \in {"seek_to_pe_header", "is_laa", "make_laa"}) =>
        /\ result.err # Ok
        /\ result.pos <= Len(pre)
        /\ result.op # "make_laa" => result.err = "UnexpectedEof"
        /\ (result.op = "make_laa" /\ (~readonly \/ privileged))
              => result.err = "UnexpectedEof"
        /\ result.out # "true"
        /\ ~wrote /\ target = pre

C9_Witness ==
    /\ Len(pre) < 64 /\ Len(pre) > 0 /\ result.op = "make_laa"
    /\ result.err = "UnexpectedEof" /\ target = pre

\* C10: when patch_exe returns an error or "Already patched" the target is
\* what it was on entry; it differs only after a "Patched ..." outcome.
C10_FailureLeavesTarget ==
    (pc = "idle" /\ result.op = "patch_exe") =>
        /\ (result.err # Ok \/ result.out = "Already patched") => target = pre /\ ~wrote
        /\ (target # pre \/ wrote) => result.err = Ok /\ result.out \in PatchedOutcomes

\* the error came after the backup was made: a read-only target
C10_Witness ==
    /\ pc = "idle" /\ result.op = "patch_exe" /\ result.err = "ReadOnly"
    /\ backed_up /\ target = pre

\* the digest tells the contents the model meets apart, as Sha256 does
DigestSeparates ==
    \A f \in InputFiles : f # target => sha_hash_path(f) # sha_hash_path(target)

====
